---- MODULE Spec2Model ----
(***************************************************************************)
(* Hash join of datafusion/core/src/physical_plan/joins/hash_join.rs.      *)
(*                                                                         *)
(* Conventions.  A column value is a record [valid, v] (arrow keeps a      *)
(* validity bit beside the value).  A row is [k |-> key columns, c |->     *)
(* payload].  Row ordinals are 1-based here (ordinal + 1 of the source),   *)
(* and a null entry of a nullable index array is NullIdx.                  *)
(***************************************************************************)
EXTENDS Integers, Sequences, FiniteSets, TLC

VARIABLES
    join_type,          \* HashJoinExec.join_type
    filter,             \* HashJoinExec.filter: "none" or the name of a predicate
    null_equals_null,   \* HashJoinExec.null_equals_null
    mode,               \* HashJoinExec.mode
    on,                 \* number of (left, right) key column pairs
    random_state,       \* HashJoinExec.random_state: which hash function is used
    partitions,         \* number of output partitions
    build_rows,         \* the logical build input
    probe_rows,         \* the logical probe input
    left_input,         \* left.execute(p): batches of each build partition
    right_input,        \* right.execute(p): batches of each probe partition
    left_fut,           \* per stream: "pending", "ready" or "failed"
    left_data,          \* per stream: the JoinLeftData once ready
    visited_left_side,  \* per stream: Option<BooleanBufferBuilder>
    right_pos,          \* per stream: probe batches pulled so far
    right_err,          \* per stream: e > 0 when the probe stream yields an error
                        \* item after its first e - 1 batches; 0 when it has none left
    is_exhausted,       \* per stream
    last,               \* per stream: what the latest poll returned
    out,                \* per stream: the batches yielded so far
    idx_log,            \* per stream: the index arrays of each probe batch
    join_metrics,       \* per stream: HashJoinMetrics
    err_count,          \* per stream: the Some(Err(_)) items the stream returned
    equal_call          \* one call of equal_rows: its arguments and its result

config == <<join_type, filter, null_equals_null, mode, on, random_state, partitions,
            build_rows, probe_rows, left_input, right_input>>
vars == <<join_type, filter, null_equals_null, mode, on, random_state, partitions,
          build_rows, probe_rows, left_input, right_input, left_fut, left_data,
          visited_left_side, right_pos, right_err, is_exhausted, last, out, idx_log,
          join_metrics, err_count, equal_call>>

\* ------------------------------------------------------------------ bounds
MaxBuildRows == 2
MaxProbeRows == 2
MaxBatchRows == 1
MaxPartitions == 2
MaxErrPolls == 2

\* ------------------------------------------------------------ value domain
NullIdx == 0

Val(x) == [valid |-> TRUE, v |-> x]
NullVal == [valid |-> FALSE, v |-> 0]
Row(key, payload) == [k |-> key, c |-> payload]

JoinTypes ==
    {"Inner", "Left", "Right", "Full", "LeftSemi", "LeftAnti", "RightSemi", "RightAnti"}
LeftTracking == {"Left", "Full", "LeftSemi", "LeftAnti"}
PartitionModes == {"CollectLeft", "Partitioned"}
Filters == {"none", "all", "lt"}

\* Rows with one key column: a null key, two rows of key 1 and a row of key 2.
RowVals1 ==
    { Row(<<NullVal>>, 0), Row(<<Val(1)>>, 0), Row(<<Val(1)>>, 1), Row(<<Val(2)>>, 1) }
\* Rows with two key columns over {null, 1}.
RowVals2 ==
    { Row(<<a, b>>, 0) : a \in {NullVal, Val(1)}, b \in {NullVal, Val(1)} }

SeqsUpTo(S, n) == UNION { [1..m -> S] : m \in 0..n }

RECURSIVE Flatten(_)
Flatten(ss) == IF Len(ss) = 0 THEN <<>> ELSE Head(ss) \o Flatten(Tail(ss))

\* The batches an input partition delivers its rows in: at most n rows each,
\* or, for n = 0, one batch holding every row (an empty batch for no rows).
RECURSIVE Chop(_, _)
Chop(rows, n) ==
    IF n = 0 THEN <<rows>>
    ELSE IF Len(rows) = 0 THEN <<>>
    ELSE IF Len(rows) <= n THEN <<rows>>
    ELSE <<SubSeq(rows, 1, n)>> \o Chop(SubSeq(rows, n + 1, Len(rows)), n)

\* The columns of a row as they appear in an output batch: keys, then payload.
Cols(row) == row.k \o <<Val(row.c)>>
NullCols(n) == [i \in 1..n |-> NullVal]
NumCols(n_on) == n_on + 1
PayloadOf(cols) == cols[Len(cols)].v

\* ------------------------------------------------------------------ hashing
\* create_hashes: one hash per row, a deterministic function of the key
\* columns and of random_state.  Under "colliding" keys 1 and 2 share a hash
\* (a pure hash collision), under "injective" no two values do, under
\* "constant" every row has the same hash; a null contributes nothing.
RandomStates == {"colliding", "injective", "constant"}

HashVal(x) ==
    CASE random_state = "injective" -> IF x.valid THEN x.v + 1 ELSE 0
      [] random_state = "constant" -> 0
      [] OTHER -> IF x.valid THEN (x.v + 1) \div 2 ELSE 0

RECURSIVE HashKey(_)
HashKey(key) == IF Len(key) = 0 THEN 0 ELSE HashVal(Head(key)) + HashKey(Tail(key))

create_hashes(batch) == [i \in 1..Len(batch) |-> HashKey(batch[i].k)]

\* Arrow data types of key columns: Int32 (the key type of build_table_i32),
\* Decimal128 with its scale, and Float16, a type equal_rows has no arm for.
Int32 == [name |-> "Int32", scale |-> 0]
Decimal128(s) == [name |-> "Decimal128", scale |-> s]
Float16 == [name |-> "Float16", scale |-> 0]
Scales == {0, 1}

Array(t, values) == [data_type |-> t, values |-> values]

\* Column.evaluate(batch) for each key column: column-major key arrays.
KeyArrays(n_on, batch) ==
    [j \in 1..n_on |-> Array(Int32, [i \in 1..Len(batch) |-> batch[i].k[j]])]

\* ------------------------------------------------------------ row equality
\* Variant that compares the stored values and ignores the null policy.
equal_rows_elem_values_only(l, r, nen) ==
    l.valid = r.valid /\ l.v = r.v

equal_rows_elem(l, r, nen) ==
    CASE l.valid /\ r.valid -> l.v = r.v
      [] ~l.valid /\ ~r.valid -> nen
      [] OTHER -> FALSE

Ok(b) == [status |-> "ok", value |-> b]
InternalErr == [status |-> "err", value |-> FALSE]
Panicked == [status |-> "panic", value |-> FALSE]

\* The closure equal_rows hands to Iterator::all, for one pair of columns:
\* Ok(b) when it returns b, InternalErr when it sets err (and returns false),
\* Panicked when the downcast of the right array to the left type is unwrapped
\* on None.
EqualColumn(l, r, left, right, nen) ==
    CASE l.data_type.name = "Int32" ->
            IF r.data_type.name = "Int32"
            THEN Ok(equal_rows_elem(l.values[left], r.values[right], nen))
            ELSE Panicked
      [] l.data_type.name = "Decimal128" ->
            IF r.data_type.name = "Decimal128"
            THEN IF l.data_type.scale = r.data_type.scale
                 THEN Ok(equal_rows_elem(l.values[left], r.values[right], nen))
                 ELSE InternalErr
            ELSE InternalErr
      [] OTHER -> InternalErr

\* Iterator::all over the zipped columns from column j on: it stops at the
\* first column whose closure returns false.
RECURSIVE AllColumns(_, _, _, _, _, _)
AllColumns(j, left, right, left_arrays, right_arrays, nen) ==
    IF j > Len(left_arrays) \/ j > Len(right_arrays) THEN Ok(TRUE)
    ELSE LET c == EqualColumn(left_arrays[j], right_arrays[j], left, right, nen)
         IN IF c.status # "ok" THEN c
            ELSE IF ~c.value THEN Ok(FALSE)
            ELSE AllColumns(j + 1, left, right, left_arrays, right_arrays, nen)

\* err.unwrap_or(Ok(res))
equal_rows(left, right, left_arrays, right_arrays, nen) ==
    AllColumns(1, left, right, left_arrays, right_arrays, nen)

\* --------------------------------------------------------------- build side
\* JoinHashMap: hash -> row ordinals in insertion order; only hashes that
\* were inserted are in the domain.
EmptyHashMap == [h \in {} |-> <<>>]

RECURSIVE InsertHashes(_, _, _, _)
InsertHashes(hash_values, row, offset, hash_map) ==
    IF row > Len(hash_values) THEN hash_map
    ELSE LET h == hash_values[row]
             next == IF h \in DOMAIN hash_map
                     THEN [hash_map EXCEPT ![h] = Append(@, row + offset)]
                     ELSE [x \in (DOMAIN hash_map) \cup {h} |->
                              IF x = h THEN <<row + offset>> ELSE hash_map[x]]
         IN InsertHashes(hash_values, row + 1, offset, next)

\* Variant that stores the row number within the batch, without the offset.
update_hash_no_offset(batch, hash_map, offset) ==
    InsertHashes(create_hashes(batch), 1, 0, hash_map)

update_hash(batch, hash_map, offset) ==
    InsertHashes(create_hashes(batch), 1, offset, hash_map)

RECURSIVE HashBatches(_, _, _)
HashBatches(batches, offset, hash_map) ==
    IF Len(batches) = 0 THEN hash_map
    ELSE HashBatches(Tail(batches), offset + Len(Head(batches)),
                     update_hash(Head(batches), hash_map, offset))

\* JoinLeftData = (JoinHashMap, RecordBatch)
collect_left_input(batches) ==
    [map |-> HashBatches(batches, 0, EmptyHashMap), batch |-> Flatten(batches)]

partitioned_left_input(batches) ==
    [map |-> HashBatches(batches, 0, EmptyHashMap), batch |-> Flatten(batches)]

\* ------------------------------------------------------------------- probe
\* left.0.get(hash): the bucket of the hash, an empty walk when absent.
HasBucket(ldata, h) == h \in DOMAIN ldata.map

\* Variant that walks a bucket from its newest entry to its oldest.
BucketNewestFirst(ldata, h) ==
    IF HasBucket(ldata, h)
    THEN [i \in 1..Len(ldata.map[h]) |-> ldata.map[h][Len(ldata.map[h]) + 1 - i]]
    ELSE <<>>

Bucket(ldata, h) == IF HasBucket(ldata, h) THEN ldata.map[h] ELSE <<>>

\* Variant that pairs the probe row with every row of its bucket.
BucketMatchesNoCheck(ldata, right, n_on, row, nen) ==
    Bucket(ldata, create_hashes(right)[row])

\* The build ordinals of the bucket of probe row `row` that are key-equal to it,
\* in bucket order.
BucketMatches(ldata, right, n_on, row, nen) ==
    LET keys_values == KeyArrays(n_on, right)
        left_join_values == KeyArrays(n_on, ldata.batch)
        h == create_hashes(right)[row]
    IN SelectSeq(Bucket(ldata, h),
                 LAMBDA i : equal_rows(i, row, left_join_values, keys_values,
                                       nen) = Ok(TRUE))

\* The `?` after each equal_rows call: the status of the first call that is
\* not Ok.  A call that is not Ok never returns true, so no bucket walk is
\* cut short before it and every bucket row of every probe row is compared.
ProbeStatus(ldata, right, n_on, nen) ==
    LET keys_values == KeyArrays(n_on, right)
        left_join_values == KeyArrays(n_on, ldata.batch)
        hash_values == create_hashes(right)
        calls == { equal_rows(Bucket(ldata, hash_values[row])[x], row,
                              left_join_values, keys_values, nen).status :
                     <<row, x>> \in { <<row, x>> \in (1..Len(right)) \X (1..Len(ldata.batch)) :
                                        x <= Len(Bucket(ldata, hash_values[row])) } }
    IN IF "panic" \in calls THEN "panic"
       ELSE IF "err" \in calls THEN "err"
       ELSE "ok"

Repeat(x, n) == [i \in 1..n |-> x]

\* Variant that stops the bucket walk of a probe row at its first match.
ProbeInnerFirstMatch(ldata, right, n_on, nen) ==
    LET all(row) == BucketMatches(ldata, right, n_on, row, nen)
        m(row) == IF Len(all(row)) = 0 THEN <<>> ELSE <<all(row)[1]>>
    IN [left |-> Flatten([row \in 1..Len(right) |-> m(row)]),
        right |-> Flatten([row \in 1..Len(right) |-> Repeat(row, Len(m(row)))])]

\* Inner | LeftSemi | LeftAnti
ProbeInner(ldata, right, n_on, nen) ==
    LET m(row) == BucketMatches(ldata, right, n_on, row, nen)
    IN [left |-> Flatten([row \in 1..Len(right) |-> m(row)]),
        right |-> Flatten([row \in 1..Len(right) |-> Repeat(row, Len(m(row)))])]

\* Variant without the break: the right index once per matching build row.
ProbeRightSemiNoBreak(ldata, right, n_on, nen) ==
    LET m(row) == BucketMatches(ldata, right, n_on, row, nen)
    IN [left |-> <<>>,
        right |-> Flatten([row \in 1..Len(right) |-> Repeat(row, Len(m(row)))])]

\* RightSemi: the right index once, at the first match; no left index.
ProbeRightSemi(ldata, right, n_on, nen) ==
    LET m(row) == BucketMatches(ldata, right, n_on, row, nen)
    IN [left |-> <<>>,
        right |-> Flatten([row \in 1..Len(right) |->
                              IF Len(m(row)) > 0 THEN <<row>> ELSE <<>>])]

\* RightAnti: the right index once when no bucket row matches; no left index.
ProbeRightAnti(ldata, right, n_on, nen) ==
    LET m(row) == BucketMatches(ldata, right, n_on, row, nen)
    IN [left |-> <<>>,
        right |-> Flatten([row \in 1..Len(right) |->
                              IF Len(m(row)) = 0 THEN <<row>> ELSE <<>>])]

\* Left
ProbeLeft(ldata, right, n_on, nen) ==
    LET m(row) == BucketMatches(ldata, right, n_on, row, nen)
    IN [left |-> Flatten([row \in 1..Len(right) |-> m(row)]),
        right |-> Flatten([row \in 1..Len(right) |-> Repeat(row, Len(m(row)))])]

\* Right | Full: a (null, row) pair when the bucket is absent or has no match.
\* Variant that pads an unmatched probe row with the first build ordinal
\* instead of a null index.
ProbeRightFullPadFirst(ldata, right, n_on, nen) ==
    LET m(row) == BucketMatches(ldata, right, n_on, row, nen)
        l(row) == IF Len(m(row)) = 0 THEN <<1>> ELSE m(row)
    IN [left |-> Flatten([row \in 1..Len(right) |-> l(row)]),
        right |-> Flatten([row \in 1..Len(right) |-> Repeat(row, Len(l(row)))])]

\* Variant that pads a probe row only when its hash has no bucket.
ProbeRightFullNoBucketOnly(ldata, right, n_on, nen) ==
    LET m(row) == BucketMatches(ldata, right, n_on, row, nen)
        l(row) == IF ~HasBucket(ldata, create_hashes(right)[row])
                  THEN <<NullIdx>> ELSE m(row)
    IN [left |-> Flatten([row \in 1..Len(right) |-> l(row)]),
        right |-> Flatten([row \in 1..Len(right) |-> Repeat(row, Len(l(row)))])]

ProbeRightFull(ldata, right, n_on, nen) ==
    LET m(row) == BucketMatches(ldata, right, n_on, row, nen)
        l(row) == IF Len(m(row)) = 0 THEN <<NullIdx>> ELSE m(row)
    IN [left |-> Flatten([row \in 1..Len(right) |-> l(row)]),
        right |-> Flatten([row \in 1..Len(right) |-> Repeat(row, Len(l(row)))])]

build_join_indexes(ldata, right, jtype, n_on, nen) ==
    LET result(status, idx) ==
            IF status = "ok"
            THEN [status |-> "ok", left |-> idx.left, right |-> idx.right]
            ELSE [status |-> status, left |-> <<>>, right |-> <<>>]
    IN result(ProbeStatus(ldata, right, n_on, nen),
              CASE jtype \in {"Inner", "LeftSemi", "LeftAnti"} ->
                       ProbeInner(ldata, right, n_on, nen)
                [] jtype = "RightSemi" -> ProbeRightSemi(ldata, right, n_on, nen)
                [] jtype = "RightAnti" -> ProbeRightAnti(ldata, right, n_on, nen)
                [] jtype = "Left" -> ProbeLeft(ldata, right, n_on, nen)
                [] jtype \in {"Right", "Full"} ->
                       ProbeRightFull(ldata, right, n_on, nen))

\* ------------------------------------------------------------ materializer
NullCount(indices) == Cardinality({i \in 1..Len(indices) : indices[i] = NullIdx})

BothSides == {"Left", "Right"}

\* The sides the output schema draws columns from (build_join_schema).
OutputSides(jtype) ==
    CASE jtype \in {"LeftSemi", "LeftAnti"} -> {"Left"}
      [] jtype \in {"RightSemi", "RightAnti"} -> {"Right"}
      [] OTHER -> BothSides

\* One side's columns of output row i: a null block when the source is empty,
\* when every index is null, or (take) when index i is null.
TakeCols(array, indices, i, n_on) ==
    IF Len(array) = 0 \/ NullCount(indices) = Len(indices) \/ indices[i] = NullIdx
    THEN NullCols(NumCols(n_on))
    ELSE Cols(array[indices[i]])

\* assert_eq!(indices.null_count(), indices.len()) on the null-array branch.
AssertFails(array, indices) ==
    (Len(array) = 0 \/ NullCount(indices) = Len(indices))
        /\ NullCount(indices) # Len(indices)

\* status "panic": an assertion failed; "err": RecordBatch::try_new refused
\* columns of different lengths; "ok": rows holds the batch.
build_batch_from_indices(left, right, left_indices, right_indices, sides, n_on) ==
    LET n == IF "Left" \in sides THEN Len(left_indices) ELSE Len(right_indices)
    IN IF \/ "Left" \in sides /\ AssertFails(left, left_indices)
          \/ "Right" \in sides /\ AssertFails(right, right_indices)
       THEN [status |-> "panic", rows |-> <<>>, left |-> left_indices]
       ELSE IF sides = BothSides /\ Len(left_indices) # Len(right_indices)
       THEN [status |-> "err", rows |-> <<>>, left |-> left_indices]
       ELSE [status |-> "ok",
             rows |-> [i \in 1..n |->
                 [l |-> IF "Left" \in sides
                        THEN TakeCols(left, left_indices, i, n_on) ELSE <<>>,
                  r |-> IF "Right" \in sides
                        THEN TakeCols(right, right_indices, i, n_on) ELSE <<>>]],
             left |-> left_indices]

\* ------------------------------------------------------------------ filter
\* The residual predicate over the payload columns of an intermediate row.
Predicate(f, l, r) ==
    CASE f = "all" -> TRUE
      [] f = "lt" -> PayloadOf(l) < PayloadOf(r)
      [] f = "gt" -> PayloadOf(l) > PayloadOf(r)

\* filter.expression().evaluate(&intermediate_batch)
Mask(f, rows) == [i \in 1..Len(rows) |-> Predicate(f, rows[i].l, rows[i].r)]

\* evaluate_selection(&intermediate_batch, &has_match): the predicate on the
\* rows with a non-null left index, a false bit elsewhere.
MaskSelection(f, rows, left_indices) ==
    [i \in 1..Len(rows) |->
        left_indices[i] # NullIdx /\ Predicate(f, rows[i].l, rows[i].r)]

FilterSeq(indices, mask) ==
    LET keep == {i \in 1..Len(indices) : mask[i]}
        F[i \in 0..Len(indices)] ==
            IF i = 0 THEN <<>>
            ELSE IF i \in keep THEN Append(F[i - 1], indices[i]) ELSE F[i - 1]
    IN F[Len(indices)]

\* The try_fold of the Right | Full arm; state = <<previous right index, has_match>>.
RECURSIVE Rebuild(_, _, _, _, _, _)
Rebuild(left_indices, right_indices, mask, pos, state, acc) ==
    IF pos > Len(right_indices) THEN [state |-> state, acc |-> acc]
    ELSE LET a1 == IF right_indices[pos] # state[1] /\ ~state[2]
                   THEN [left |-> Append(acc.left, NullIdx),
                         right |-> Append(acc.right, state[1])]
                   ELSE acc
             a2 == IF mask[pos]
                   THEN [left |-> Append(a1.left, left_indices[pos]),
                         right |-> Append(a1.right, right_indices[pos])]
                   ELSE a1
             has_match == IF right_indices[pos] # state[1]
                          THEN mask[pos]
                          ELSE mask[pos] \/ state[2]
         IN Rebuild(left_indices, right_indices, mask, pos + 1,
                    <<right_indices[pos], has_match>>, a2)

\* Variant that filters Right | Full like the other join types: no pad is put
\* back for a probe row whose candidates all fail.
FilterRightFullStraight(left_indices, right_indices, mask) ==
    [left |-> FilterSeq(left_indices, mask), right |-> FilterSeq(right_indices, mask)]

FilterRightFull(left_indices, right_indices, mask) ==
    LET res == Rebuild(left_indices, right_indices, mask, 1,
                       <<right_indices[1], FALSE>>, [left |-> <<>>, right |-> <<>>])
    IN IF ~res.state[2]
       THEN [left |-> Append(res.acc.left, NullIdx),
             right |-> Append(res.acc.right, res.state[1])]
       ELSE res.acc

apply_join_filter(left, right, jtype, left_indices, right_indices, f, n_on) ==
    LET filtered(inter) ==
            IF inter.status # "ok"
            THEN [status |-> inter.status, left |-> <<>>, right |-> <<>>]
            ELSE IF jtype \in {"Right", "Full"}
            THEN LET r == FilterRightFull(left_indices, right_indices,
                                          MaskSelection(f, inter.rows, left_indices))
                 IN [status |-> "ok", left |-> r.left, right |-> r.right]
            ELSE LET mask == Mask(f, inter.rows)
                 IN [status |-> "ok", left |-> FilterSeq(left_indices, mask),
                     right |-> FilterSeq(right_indices, mask)]
    IN IF Len(left_indices) = 0 /\ Len(right_indices) = 0
       THEN [status |-> "ok", left |-> left_indices, right |-> right_indices]
       ELSE filtered(build_batch_from_indices(left, right, left_indices,
                                              right_indices, BothSides, n_on))

\* ------------------------------------------------------------- build_batch
\* Variant that hands the unfiltered left indices to the bitmap update.
build_batch_unfiltered_left(batch, ldata, n_on, f, jtype, nen) ==
    LET idx == build_join_indexes(ldata, batch, jtype, n_on, nen)
        filtered == IF f # "none"
                    THEN apply_join_filter(ldata.batch, batch, jtype,
                                           idx.left, idx.right, f, n_on)
                    ELSE [status |-> "ok", left |-> idx.left, right |-> idx.right]
    IN IF idx.status # "ok" \/ filtered.status # "ok"
       THEN [status |-> "panic", rows |-> <<>>, left |-> <<>>, right |-> <<>>]
       ELSE IF jtype \in {"LeftSemi", "LeftAnti"}
       THEN [status |-> "ok", rows |-> <<>>, left |-> idx.left,
             right |-> filtered.right]
       ELSE LET b == build_batch_from_indices(ldata.batch, batch, filtered.left,
                                              filtered.right, OutputSides(jtype), n_on)
            IN [status |-> b.status, rows |-> b.rows, left |-> idx.left,
                right |-> filtered.right]

\* status "panic": an unwrap() of an Err, or a failed assertion.
build_batch(batch, ldata, n_on, f, jtype, nen) ==
    LET output(filtered, b) ==
            [status |-> b.status, rows |-> b.rows, left |-> filtered.left,
             right |-> filtered.right]
        materialize(filtered) ==
            IF filtered.status # "ok"
            THEN [status |-> "panic", rows |-> <<>>, left |-> <<>>, right |-> <<>>]
            ELSE IF jtype \in {"LeftSemi", "LeftAnti"}
            THEN [status |-> "ok", rows |-> <<>>, left |-> filtered.left,
                  right |-> filtered.right]
            ELSE output(filtered,
                        build_batch_from_indices(ldata.batch, batch, filtered.left,
                                                 filtered.right, OutputSides(jtype),
                                                 n_on))
        filter_indices(idx) ==
            IF idx.status # "ok"
            THEN [status |-> "panic", rows |-> <<>>, left |-> <<>>, right |-> <<>>]
            ELSE materialize(IF f # "none"
                             THEN apply_join_filter(ldata.batch, batch, jtype,
                                                    idx.left, idx.right, f, n_on)
                             ELSE idx)
    IN filter_indices(build_join_indexes(ldata, batch, jtype, n_on, nen))

\* ------------------------------------------------------- unmatched emitter
\* Variant that ignores `unmatched` and always selects the visited rows.
produce_from_visited(visited, ldata, sides, unmatched, n_on) ==
    LET indices == FilterSeq([v \in 1..Len(visited) |-> v], visited)
    IN [i \in 1..Len(indices) |->
           [l |-> IF "Left" \in sides THEN Cols(ldata.batch[indices[i]]) ELSE <<>>,
            r |-> IF "Right" \in sides THEN NullCols(NumCols(n_on)) ELSE <<>>]]

produce_from_matched(visited, ldata, sides, unmatched, n_on) ==
    LET indices == FilterSeq([v \in 1..Len(visited) |-> v],
                             [v \in 1..Len(visited) |->
                                 IF unmatched THEN ~visited[v]
                                 ELSE visited[v]])
    IN [i \in 1..Len(indices) |->
           [l |-> IF "Left" \in sides THEN Cols(ldata.batch[indices[i]]) ELSE <<>>,
            r |-> IF "Right" \in sides THEN NullCols(NumCols(n_on)) ELSE <<>>]]

\* ------------------------------------------------------------ visited bitmap
\* Variant that rewrites the bitmap from the current batch alone.
SetBitsOverwrite(bits, left_side) ==
    [i \in 1..Len(bits) |-> \E x \in 1..Len(left_side) : left_side[x] = i]

SetBits(bits, left_side) ==
    [i \in 1..Len(bits) |->
        bits[i] \/ \E x \in 1..Len(left_side) : left_side[x] = i]

\* ------------------------------------------------------------ a whole stream
\* poll_next_impl polled until it returns None, over the given probe batches:
\* the batches yielded (the terminal batch last) and the index arrays of each
\* probe batch; status "panic" when a poll panicked.
RECURSIVE PollAll(_, _, _, _, _, _, _, _, _)
PollAll(jtype, f, nen, n_on, ldata, batches, k, bits, acc) ==
    IF k > Len(batches)
    THEN [status |-> "ok",
          out |-> IF jtype \in LeftTracking
                  THEN Append(acc.out,
                              produce_from_matched(bits, ldata, OutputSides(jtype),
                                                   jtype # "LeftSemi", n_on))
                  ELSE acc.out,
          idx |-> acc.idx]
    ELSE LET result == build_batch(batches[k], ldata, n_on, f, jtype, nen)
         IN IF result.status # "ok"
            THEN [status |-> result.status, out |-> acc.out, idx |-> acc.idx]
            ELSE PollAll(jtype, f, nen, n_on, ldata, batches, k + 1,
                         IF jtype \in LeftTracking
                         THEN SetBits(bits, result.left) ELSE bits,
                         [out |-> Append(acc.out, result.rows),
                          idx |-> Append(acc.idx, [left |-> result.left,
                                                   right |-> result.right])])

RunStream(jtype, f, nen, n_on, ldata, batches) ==
    PollAll(jtype, f, nen, n_on, ldata, batches, 1,
            IF jtype \in LeftTracking
            THEN [i \in 1..Len(ldata.batch) |-> FALSE] ELSE <<>>,
            [out |-> <<>>, idx |-> <<>>])

\* ------------------------------------------------------------------ inputs
Streams == 1..partitions

\* RepartitionExec with Partitioning::Hash on the key columns.
PartitionOf(row, n) == (HashKey(row.k) % n) + 1

HashPartition(rows, n, p) == SelectSeq(rows, LAMBDA r : PartitionOf(r, n) = p)

\* An input that is not partitioned on the keys: rows dealt round-robin.
RoundRobin(rows, n, p) ==
    LET F[i \in 0..Len(rows)] ==
            IF i = 0 THEN <<>>
            ELSE IF ((i - 1) % n) + 1 = p THEN Append(F[i - 1], rows[i]) ELSE F[i - 1]
    IN F[Len(rows)]

\* CollectLeft requires a single build partition; Partitioned requires both
\* sides hash-partitioned on the keys.
LeftPartitions(m, n, rows, size) ==
    IF m = "CollectLeft" THEN <<Chop(rows, size)>>
    ELSE [p \in 1..n |-> Chop(HashPartition(rows, n, p), size)]

RightPartitions(m, n, rows, size) ==
    IF m = "CollectLeft" THEN [p \in 1..n |-> Chop(RoundRobin(rows, n, p), size)]
    ELSE [p \in 1..n |-> Chop(HashPartition(rows, n, p), size)]

NoBitmap == [some |-> FALSE, bits |-> <<>>]
NoData == [map |-> EmptyHashMap, batch |-> <<>>]
ZeroMetrics ==
    [input_batches |-> 0, input_rows |-> 0, output_batches |-> 0, output_rows |-> 0]

NoResult == [status |-> "none", value |-> FALSE]
NoCall ==
    [left_arrays |-> <<>>, right_arrays |-> <<>>, left |-> 1, right |-> 1,
     null_equals_null |-> FALSE, result |-> NoResult]

\* execute(p) for every output partition: the streams before their first poll.
InitStreams(JT, F, NEN, M, P, ON, RV, nb, np, sizes) ==
    /\ join_type \in JT
    /\ filter \in F
    /\ null_equals_null \in NEN
    /\ mode \in M
    /\ on = ON
    /\ partitions \in P
    /\ build_rows \in SeqsUpTo(RV, nb)
    /\ probe_rows \in SeqsUpTo(RV, np)
    /\ \E size \in sizes :
          /\ left_input = LeftPartitions(mode, partitions, build_rows, size)
          /\ right_input = RightPartitions(mode, partitions, probe_rows, size)
    /\ left_fut = [p \in Streams |-> "pending"]
    /\ left_data = [p \in Streams |-> NoData]
    /\ visited_left_side = [p \in Streams |-> NoBitmap]
    /\ right_pos = [p \in Streams |-> 0]
    /\ is_exhausted = [p \in Streams |-> FALSE]
    /\ last = [p \in Streams |-> "none"]
    /\ out = [p \in Streams |-> <<>>]
    /\ idx_log = [p \in Streams |-> <<>>]
    /\ join_metrics = [p \in Streams |-> ZeroMetrics]
    /\ err_count = [p \in Streams |-> 0]

\* HashJoinExec::try_new followed by execute(p) for every output partition,
\* over probe streams that yield no error item.
InitWith(JT, F, NEN, M, P, ON, RV, nb, np, sizes) ==
    /\ random_state = "colliding"
    /\ InitStreams(JT, F, NEN, M, P, ON, RV, nb, np, sizes)
    /\ right_err = [p \in Streams |-> 0]
    /\ equal_call = NoCall

\* One stream over the whole input, every join type.
Init ==
    InitWith(JoinTypes, Filters, BOOLEAN, {"CollectLeft"}, {1}, 1, RowVals1,
             MaxBuildRows, MaxProbeRows, 0..MaxBatchRows)

InitInner ==
    InitWith({"Inner"}, Filters, BOOLEAN, {"CollectLeft"}, {1}, 1, RowVals1,
             MaxBuildRows, MaxProbeRows, 0..MaxBatchRows)

InitOuter ==
    InitWith({"Left", "Right", "Full"}, Filters, BOOLEAN, {"CollectLeft"}, {1}, 1,
             RowVals1, MaxBuildRows, MaxProbeRows, 0..MaxBatchRows)

InitSemi ==
    InitWith({"LeftSemi", "LeftAnti", "RightSemi", "RightAnti"}, Filters, BOOLEAN,
             {"CollectLeft"}, {1}, 1, RowVals1, MaxBuildRows, MaxProbeRows,
             0..MaxBatchRows)

\* Two key columns, no residual filter.
InitKeys2 ==
    InitWith(JoinTypes, {"none"}, BOOLEAN, {"CollectLeft"}, {1}, 2, RowVals2,
             MaxBuildRows, MaxProbeRows, 0..MaxBatchRows)

\* Both partition modes over one or more output partitions, no residual filter.
InitModes ==
    InitWith(JoinTypes, {"none"}, {FALSE}, PartitionModes, 1..MaxPartitions, 1,
             RowVals1, MaxBuildRows, MaxProbeRows, {0})

\* Every hash function, no residual filter.
InitHash ==
    /\ random_state \in RandomStates
    /\ InitStreams(JoinTypes, {"none"}, BOOLEAN, {"CollectLeft"}, {1}, 1, RowVals1,
                   MaxBuildRows, MaxProbeRows, {0})
    /\ right_err = [p \in Streams |-> 0]
    /\ equal_call = NoCall

\* Probe streams that may yield one error item, before any batch, between two
\* batches or after the last one.
InitErrors ==
    /\ random_state = "colliding"
    /\ InitStreams(JoinTypes, {"none"}, {FALSE}, {"CollectLeft"}, {1}, 1, RowVals1,
                   MaxBuildRows, MaxProbeRows, 0..MaxBatchRows)
    /\ right_err \in [Streams -> 0..(MaxProbeRows + 1)]
    /\ \A p \in Streams : right_err[p] <= Len(right_input[p]) + 1
    /\ equal_call = NoCall

\* The arguments of one equal_rows call: two pairs of key columns of one row
\* each; the two columns of a pair have the same type, or are Decimal128 of
\* any two scales, or are an Int32 column paired with a Float16 column.
TypePairs ==
    { <<Int32, Int32>>, <<Float16, Float16>>, <<Int32, Float16>> }
      \cup { <<Decimal128(a), Decimal128(b)>> : a \in Scales, b \in Scales }
KeyValues == {NullVal, Val(1), Val(2)}
ColumnPairs ==
    { [l |-> Array(t[1], <<x>>), r |-> Array(t[2], <<y>>)] :
        t \in TypePairs, x \in KeyValues, y \in KeyValues }

InitEqualRows ==
    /\ random_state = "colliding"
    /\ InitStreams({"Inner"}, {"none"}, {FALSE}, {"CollectLeft"}, {1}, 1, RowVals1,
                   0, 0, {0})
    /\ right_err = [p \in Streams |-> 0]
    /\ \E c1 \in ColumnPairs, c2 \in ColumnPairs, nen \in BOOLEAN :
          equal_call = [left_arrays |-> <<c1.l, c2.l>>,
                        right_arrays |-> <<c1.r, c2.r>>,
                        left |-> 1, right |-> 1,
                        null_equals_null |-> nen, result |-> NoResult]

\* ----------------------------------------------------------------- actions
\* Variant in which every stream of a CollectLeft join runs its own build.
BuildCompletePerStream(p) ==
    /\ left_fut[p] = "pending"
    /\ left_fut' = [left_fut EXCEPT ![p] = "ready"]
    /\ left_data' = [left_data EXCEPT ![p] =
                        IF mode = "CollectLeft" THEN collect_left_input(left_input[1])
                        ELSE partitioned_left_input(left_input[p])]
    /\ UNCHANGED <<config, visited_left_side, right_pos, right_err, is_exhausted,
                   last, out, idx_log, join_metrics, err_count, equal_call>>

\* The build future completes.  CollectLeft: one OnceAsync shared by every
\* stream; Partitioned: a OnceFut per stream over its own build partition.
BuildComplete(p) ==
    /\ left_fut[p] = "pending"
    /\ IF mode = "CollectLeft"
       THEN /\ left_fut' = [q \in Streams |-> "ready"]
            /\ left_data' = [q \in Streams |-> collect_left_input(left_input[1])]
       ELSE /\ left_fut' = [left_fut EXCEPT ![p] = "ready"]
            /\ left_data' = [left_data EXCEPT
                                ![p] = partitioned_left_input(left_input[p])]
    /\ UNCHANGED <<config, visited_left_side, right_pos, right_err, is_exhausted,
                   last, out, idx_log, join_metrics, err_count, equal_call>>

\* The build future completes with an error: the build input stream yields an
\* error item, and try_fold(..).await? returns it.
BuildFail(p) ==
    /\ left_fut[p] = "pending"
    /\ left_fut' = IF mode = "CollectLeft" THEN [q \in Streams |-> "failed"]
                   ELSE [left_fut EXCEPT ![p] = "failed"]
    /\ UNCHANGED <<config, left_data, visited_left_side, right_pos, right_err,
                   is_exhausted, last, out, idx_log, join_metrics, err_count,
                   equal_call>>

\* Variant that polls the probe stream before looking at the build future.
PollPendingPullsProbe(p) ==
    /\ left_fut[p] = "pending"
    /\ last' = [last EXCEPT ![p] = "pending"]
    /\ right_pos' = [right_pos EXCEPT ![p] =
                        IF @ < Len(right_input[p]) THEN @ + 1 ELSE @]
    /\ UNCHANGED <<config, left_fut, left_data, visited_left_side, right_err,
                   is_exhausted, out, idx_log, join_metrics, err_count, equal_call>>

\* poll_next_impl while the build future is pending: ready!() returns Pending.
PollPending(p) ==
    /\ left_fut[p] = "pending"
    /\ last' = [last EXCEPT ![p] = "pending"]
    /\ UNCHANGED <<config, left_fut, left_data, visited_left_side, right_pos,
                   right_err, is_exhausted, out, idx_log, join_metrics, err_count,
                   equal_call>>

\* poll_next_impl when the build future holds an error, which it hands to
\* every get(): the poll returns Some(Err(e)) and changes nothing else.
PollBuildErr(p) ==
    /\ left_fut[p] = "failed"
    /\ err_count[p] < MaxErrPolls
    /\ last' = [last EXCEPT ![p] = "error"]
    /\ err_count' = [err_count EXCEPT ![p] = @ + 1]
    /\ UNCHANGED <<config, left_fut, left_data, visited_left_side, right_pos,
                   right_err, is_exhausted, out, idx_log, join_metrics, equal_call>>

\* Variant that builds a new, all-false bitmap at every poll.
GetOrInsertBitmapAlways(p) ==
    [some |-> TRUE,
     bits |-> IF join_type \in LeftTracking
              THEN [i \in 1..Len(left_data[p].batch) |-> FALSE]
              ELSE <<>>]

\* Variant that allocates one bit per build row for every join type.
GetOrInsertBitmapEveryType(p) ==
    IF visited_left_side[p].some THEN visited_left_side[p]
    ELSE [some |-> TRUE, bits |-> [i \in 1..Len(left_data[p].batch) |-> FALSE]]

\* visited_left_side.get_or_insert_with(..)
GetOrInsertBitmap(p) ==
    IF visited_left_side[p].some THEN visited_left_side[p]
    ELSE [some |-> TRUE,
          bits |-> IF join_type \in LeftTracking
                   THEN [i \in 1..Len(left_data[p].batch) |-> FALSE]
                   ELSE <<>>]

RowCount(batch) == Len(batch)

\* self.right.poll_next_unpin(cx): the item the probe stream yields next.
NextItem(p) ==
    IF right_err[p] # 0 /\ right_pos[p] = right_err[p] - 1 THEN "err"
    ELSE IF right_pos[p] < Len(right_input[p]) THEN "batch"
    ELSE "none"

\* Variant that puts each output batch before the ones yielded earlier.
PollBatchNewestFirst(p) ==
    /\ left_fut[p] = "ready"
    /\ last[p] # "panic"
    /\ NextItem(p) = "batch"
    /\ LET batch == right_input[p][right_pos[p] + 1]
           bitmap == GetOrInsertBitmap(p)
           result == build_batch(batch, left_data[p], on, filter, join_type,
                                 null_equals_null)
           m == join_metrics[p]
       IN /\ right_pos' = [right_pos EXCEPT ![p] = @ + 1]
          /\ CASE result.status = "panic" ->
                    /\ last' = [last EXCEPT ![p] = "panic"]
                    /\ visited_left_side' = [visited_left_side EXCEPT ![p] = bitmap]
                    /\ UNCHANGED <<out, idx_log, join_metrics, err_count>>
               [] result.status = "err" ->
                    /\ last' = [last EXCEPT ![p] = "error"]
                    /\ visited_left_side' = [visited_left_side EXCEPT ![p] = bitmap]
                    /\ join_metrics' = [join_metrics EXCEPT ![p] =
                          [m EXCEPT !.input_batches = @ + 1,
                                    !.input_rows = @ + RowCount(batch)]]
                    /\ err_count' = [err_count EXCEPT ![p] = @ + 1]
                    /\ UNCHANGED <<out, idx_log>>
               [] OTHER ->
                    /\ last' = [last EXCEPT ![p] = "batch"]
                    /\ visited_left_side' = [visited_left_side EXCEPT ![p] =
                          IF join_type \in LeftTracking
                          THEN [bitmap EXCEPT !.bits = SetBits(@, result.left)]
                          ELSE bitmap]
                    /\ join_metrics' = [join_metrics EXCEPT ![p] =
                          [input_batches |-> m.input_batches + 1,
                           input_rows |-> m.input_rows + RowCount(batch),
                           output_batches |-> m.output_batches + 1,
                           output_rows |-> m.output_rows + RowCount(result.rows)]]
                    /\ out' = [out EXCEPT ![p] = <<result.rows>> \o @]
                    /\ idx_log' = [idx_log EXCEPT ![p] =
                          Append(@, [left |-> result.left, right |-> result.right])]
                    /\ UNCHANGED err_count
    /\ UNCHANGED <<config, left_fut, left_data, right_err, is_exhausted, equal_call>>

\* poll_next_impl, the probe stream yields Some(Ok(batch)).
PollBatch(p) ==
    /\ left_fut[p] = "ready"
    /\ last[p] # "panic"
    /\ NextItem(p) = "batch"
    /\ right_pos' = [right_pos EXCEPT ![p] = @ + 1]
    /\ \E batch \in {right_input[p][right_pos[p] + 1]} :
       \E bitmap \in {GetOrInsertBitmap(p)} :
       \E result \in {build_batch(batch, left_data[p], on, filter, join_type,
                                  null_equals_null)} :
       \E m \in {join_metrics[p]} :
          CASE result.status = "panic" ->
                    /\ last' = [last EXCEPT ![p] = "panic"]
                    /\ visited_left_side' = [visited_left_side EXCEPT ![p] = bitmap]
                    /\ UNCHANGED <<out, idx_log, join_metrics, err_count>>
            [] result.status = "err" ->
                    /\ last' = [last EXCEPT ![p] = "error"]
                    /\ visited_left_side' = [visited_left_side EXCEPT ![p] = bitmap]
                    /\ join_metrics' = [join_metrics EXCEPT ![p] =
                          [m EXCEPT !.input_batches = @ + 1,
                                    !.input_rows = @ + RowCount(batch)]]
                    /\ err_count' = [err_count EXCEPT ![p] = @ + 1]
                    /\ UNCHANGED <<out, idx_log>>
            [] OTHER ->
                    /\ last' = [last EXCEPT ![p] = "batch"]
                    /\ visited_left_side' = [visited_left_side EXCEPT ![p] =
                          IF join_type \in LeftTracking
                          THEN [bitmap EXCEPT !.bits = SetBits(@, result.left)]
                          ELSE bitmap]
                    /\ join_metrics' = [join_metrics EXCEPT ![p] =
                          [input_batches |-> m.input_batches + 1,
                           input_rows |-> m.input_rows + RowCount(batch),
                           output_batches |-> m.output_batches + 1,
                           output_rows |-> m.output_rows + RowCount(result.rows)]]
                    /\ out' = [out EXCEPT ![p] = Append(@, result.rows)]
                    /\ idx_log' = [idx_log EXCEPT ![p] =
                          Append(@, [left |-> result.left, right |-> result.right])]
                    /\ UNCHANGED err_count
    /\ UNCHANGED <<config, left_fut, left_data, right_err, is_exhausted, equal_call>>

\* Variant that yields the terminal batch only when it has rows.
PollOtherSkipEmpty(p) ==
    /\ left_fut[p] = "ready"
    /\ last[p] # "panic"
    /\ NextItem(p) \in {"none", "err"}
    /\ LET bitmap == GetOrInsertBitmap(p)
           m == join_metrics[p]
       IN /\ visited_left_side' = [visited_left_side EXCEPT ![p] = bitmap]
          /\ right_err' = [right_err EXCEPT ![p] = 0]
          /\ IF /\ join_type \in LeftTracking
                /\ ~is_exhausted[p]
                /\ \E i \in 1..Len(bitmap.bits) :
                      bitmap.bits[i] = (join_type = "LeftSemi")
             THEN LET result == produce_from_matched(bitmap.bits, left_data[p],
                                    OutputSides(join_type), join_type # "LeftSemi", on)
                  IN /\ join_metrics' = [join_metrics EXCEPT ![p] =
                            [input_batches |-> m.input_batches + 1,
                             input_rows |-> m.input_rows + RowCount(result),
                             output_batches |-> m.output_batches + 1,
                             output_rows |-> m.output_rows + RowCount(result)]]
                     /\ is_exhausted' = [is_exhausted EXCEPT ![p] = TRUE]
                     /\ out' = [out EXCEPT ![p] = Append(@, result)]
                     /\ last' = [last EXCEPT ![p] = "terminal"]
                     /\ UNCHANGED err_count
             ELSE IF NextItem(p) = "err"
             THEN /\ last' = [last EXCEPT ![p] = "error"]
                  /\ err_count' = [err_count EXCEPT ![p] = @ + 1]
                  /\ UNCHANGED <<join_metrics, is_exhausted, out>>
             ELSE /\ last' = [last EXCEPT ![p] = "eos"]
                  /\ UNCHANGED <<join_metrics, is_exhausted, out, err_count>>
    /\ UNCHANGED <<config, left_fut, left_data, right_pos, idx_log, equal_call>>

\* poll_next_impl, the `other` arm: the probe stream yields None or
\* Some(Err(e)).  A left-tracking join that is not yet exhausted returns its
\* terminal batch whichever of the two the item is; otherwise the item is
\* returned as it is.
PollOther(p) ==
    /\ left_fut[p] = "ready"
    /\ last[p] # "panic"
    /\ NextItem(p) \in {"none", "err"}
    /\ LET bitmap == GetOrInsertBitmap(p)
           m == join_metrics[p]
       IN /\ visited_left_side' = [visited_left_side EXCEPT ![p] = bitmap]
          /\ right_err' = [right_err EXCEPT ![p] = 0]
          /\ IF join_type \in LeftTracking /\ ~is_exhausted[p]
             THEN LET result == produce_from_matched(bitmap.bits, left_data[p],
                                    OutputSides(join_type), join_type # "LeftSemi", on)
                  IN /\ join_metrics' = [join_metrics EXCEPT ![p] =
                            [input_batches |-> m.input_batches + 1,
                             input_rows |-> m.input_rows + RowCount(result),
                             output_batches |-> m.output_batches + 1,
                             output_rows |-> m.output_rows + RowCount(result)]]
                     /\ is_exhausted' = [is_exhausted EXCEPT ![p] = TRUE]
                     /\ out' = [out EXCEPT ![p] = Append(@, result)]
                     /\ last' = [last EXCEPT ![p] = "terminal"]
                     /\ UNCHANGED err_count
             ELSE IF NextItem(p) = "err"
             THEN /\ last' = [last EXCEPT ![p] = "error"]
                  /\ err_count' = [err_count EXCEPT ![p] = @ + 1]
                  /\ UNCHANGED <<join_metrics, is_exhausted, out>>
             ELSE /\ last' = [last EXCEPT ![p] = "eos"]
                  /\ UNCHANGED <<join_metrics, is_exhausted, out, err_count>>
    /\ UNCHANGED <<config, left_fut, left_data, right_pos, idx_log, equal_call>>

Next ==
    \E p \in Streams :
        \/ BuildComplete(p)
        \/ BuildFail(p)
        \/ PollPending(p)
        \/ PollBuildErr(p)
        \/ PollBatch(p)
        \/ PollOther(p)

\* One call of equal_rows on the arguments of equal_call.
EqualRowsCall ==
    /\ equal_call.result = NoResult
    /\ equal_call' = [equal_call EXCEPT !.result =
          equal_rows(equal_call.left, equal_call.right, equal_call.left_arrays,
                     equal_call.right_arrays, equal_call.null_equals_null)]
    /\ UNCHANGED <<config, left_fut, left_data, visited_left_side, right_pos,
                   right_err, is_exhausted, last, out, idx_log, join_metrics,
                   err_count>>

Spec == Init /\ [][Next]_vars
SpecKeys2 == InitKeys2 /\ [][Next]_vars
SpecModes == InitModes /\ [][Next]_vars
SpecHash == InitHash /\ [][Next]_vars
SpecErrors == InitErrors /\ [][Next]_vars
SpecEqualRows == InitEqualRows /\ [][EqualRowsCall]_vars
SpecInner == InitInner /\ [][Next]_vars
SpecOuter == InitOuter /\ [][Next]_vars
SpecSemi == InitSemi /\ [][Next]_vars

\* =================================================================== claims
\* Vocabulary of the claims: the rows a stream joins, key equality and the
\* residual filter as relations between a build row and a probe row.
BuildRowsOf(p) == Flatten(left_input[IF mode = "CollectLeft" THEN 1 ELSE p])
ProbeRowsOf(p) == Flatten(right_input[p])

KeyEqual(b, r) ==
    \A j \in 1..on :
        IF b.k[j].valid /\ r.k[j].valid THEN b.k[j].v = r.k[j].v
        ELSE ~b.k[j].valid /\ ~r.k[j].valid /\ null_equals_null

Passes(b, r) == filter = "none" \/ Predicate(filter, Cols(b), Cols(r))

Drained(p) == last[p] = "eos"

\* Rows of the probe batches before batch k of stream p.
BatchOffset(p, k) == Len(Flatten(SubSeq(right_input[p], 1, k - 1)))

\* The index pairs of every probe batch so far, as <<build ordinal, ordinal in
\* the whole probe input>>, in emission order.
PairsOf(p) ==
    Flatten([k \in 1..Len(idx_log[p]) |->
        [i \in 1..Len(idx_log[p][k].left) |->
            <<idx_log[p][k].left[i], BatchOffset(p, k) + idx_log[p][k].right[i]>>]])

\* Every row yielded so far, in emission order.
OutRows(p) == Flatten(out[p])

SeqToSet(sq) == {sq[i] : i \in 1..Len(sq)}
Count(sq, x) == Cardinality({i \in 1..Len(sq) : sq[i] = x})

RECURSIVE Sum(_)
Sum(sq) == IF Len(sq) = 0 THEN 0 ELSE Head(sq) + Sum(Tail(sq))

\* The build ordinals key-equal to a probe row / passing the filter as well.
KeyEqualBuild(p, r) == {b \in 1..Len(BuildRowsOf(p)) : KeyEqual(BuildRowsOf(p)[b], r)}
MatchingBuild(p, r) == {b \in KeyEqualBuild(p, r) : Passes(BuildRowsOf(p)[b], r)}
KeyEqualProbe(p, b) == {g \in 1..Len(ProbeRowsOf(p)) : KeyEqual(b, ProbeRowsOf(p)[g])}
MatchingProbe(p, b) == {g \in KeyEqualProbe(p, b) : Passes(b, ProbeRowsOf(p)[g])}

\* C1: for Inner, the output of a drained stream is exactly the pairs (build
\* row, probe row) that are key-equal under null_equals_null and pass the
\* residual filter when there is one, each pair once; without a filter the row
\* count is the sum over probe rows of the number of key-equal build rows.
C1_InnerPairs ==
    \A p \in Streams :
        (join_type = "Inner" /\ Drained(p)) =>
            LET B == BuildRowsOf(p)
                R == ProbeRowsOf(p)
                pairs == PairsOf(p)
                rows == OutRows(p)
                expected == {pr \in (1..Len(B)) \X (1..Len(R)) :
                                pr[1] \in MatchingBuild(p, R[pr[2]])}
            IN /\ SeqToSet(pairs) = expected
               /\ Len(pairs) = Cardinality(expected)
               /\ Len(rows) = Len(pairs)
               /\ \A i \in 1..Len(rows) :
                     rows[i] = [l |-> Cols(B[pairs[i][1]]), r |-> Cols(R[pairs[i][2]])]
               /\ filter = "none" =>
                     Len(rows) = Sum([g \in 1..Len(R) |->
                                        Cardinality(KeyEqualBuild(p, R[g]))])

\* A drained Inner stream over two probe batches with a filter, where one probe
\* row has two key-equal build rows and only one of the pairs passes.
C1_Witness ==
    \E p \in Streams :
        /\ join_type = "Inner" /\ Drained(p) /\ filter = "lt"
        /\ Len(right_input[p]) = 2
        /\ \E g \in 1..Len(ProbeRowsOf(p)) :
              /\ Cardinality(KeyEqualBuild(p, ProbeRowsOf(p)[g])) = 2
              /\ Cardinality(MatchingBuild(p, ProbeRowsOf(p)[g])) = 1
        /\ Len(OutRows(p)) >= 1

\* C2: in a drained stream, Left and Full yield every build row at least once,
\* in a row matched with a key-equal, filter-passing probe row or in a row whose
\* probe columns are all null; Right and Full yield every probe row at least
\* once, matched or with all build columns null.  Any number of probe batches,
\* an empty probe input included.
C2_OuterRowsPreserved ==
    \A p \in Streams :
        Drained(p) =>
            LET B == BuildRowsOf(p)
                R == ProbeRowsOf(p)
                rows == OutRows(p)
                nulls == NullCols(NumCols(on))
            IN /\ join_type \in {"Left", "Full"} =>
                    \A b \in 1..Len(B) :
                        \E i \in 1..Len(rows) :
                            /\ rows[i].l = Cols(B[b])
                            /\ \/ rows[i].r = nulls
                               \/ \E g \in MatchingProbe(p, B[b]) : rows[i].r = Cols(R[g])
               /\ join_type \in {"Right", "Full"} =>
                    \A g \in 1..Len(R) :
                        \E i \in 1..Len(rows) :
                            /\ rows[i].r = Cols(R[g])
                            /\ \/ rows[i].l = nulls
                               \/ \E b \in MatchingBuild(p, R[g]) : rows[i].l = Cols(B[b])

\* A drained Full stream over two probe batches in which one build row and one
\* probe row are key-equal but fail the filter, so both are kept by padding.
C2_Witness ==
    \E p \in Streams :
        /\ join_type = "Full" /\ Drained(p) /\ filter = "lt"
        /\ Len(right_input[p]) = 2
        /\ \E b \in 1..Len(BuildRowsOf(p)) :
              /\ KeyEqualProbe(p, BuildRowsOf(p)[b]) # {}
              /\ MatchingProbe(p, BuildRowsOf(p)[b]) = {}
        /\ \E g \in 1..Len(ProbeRowsOf(p)) :
              /\ KeyEqualBuild(p, ProbeRowsOf(p)[g]) # {}
              /\ MatchingBuild(p, ProbeRowsOf(p)[g]) = {}

\* The multiset of build rows `keep` (ordinals) as a terminal semi/anti output:
\* every build row content occurs as often as it has ordinals in `keep`.
IsBuildSelection(p, rows, keep) ==
    /\ Len(rows) = Cardinality(keep)
    /\ \A b \in 1..Len(BuildRowsOf(p)) :
          Count(rows, [l |-> Cols(BuildRowsOf(p)[b]), r |-> <<>>])
              = Cardinality({c \in keep : BuildRowsOf(p)[c] = BuildRowsOf(p)[b]})

\* C3 as stated: a drained LeftSemi stream yields each build row that has a
\* key-equal probe row exactly once and nothing else; LeftAnti the complement.
C3_Original ==
    \A p \in Streams :
        Drained(p) =>
            LET B == BuildRowsOf(p)
                hit == {b \in 1..Len(B) : KeyEqualProbe(p, B[b]) # {}}
            IN /\ join_type = "LeftSemi" => IsBuildSelection(p, OutRows(p), hit)
               /\ join_type = "LeftAnti" =>
                     IsBuildSelection(p, OutRows(p), (1..Len(B)) \ hit)

\* C3 amended: a drained LeftSemi stream yields each build row that has a
\* key-equal probe row passing the residual filter (when there is one), in any
\* probe batch, exactly once and nothing else, however many probe rows match
\* it; LeftAnti yields exactly the other build rows, each once.
C3_SemiAnti ==
    \A p \in Streams :
        Drained(p) =>
            LET B == BuildRowsOf(p)
                hit == {b \in 1..Len(B) : MatchingProbe(p, B[b]) # {}}
            IN /\ join_type = "LeftSemi" => IsBuildSelection(p, OutRows(p), hit)
               /\ join_type = "LeftAnti" =>
                     IsBuildSelection(p, OutRows(p), (1..Len(B)) \ hit)

\* A drained LeftSemi stream whose build row is matched by two probe rows that
\* arrive in different batches, beside a build row nothing matches.
C3_Witness ==
    \E p \in Streams :
        /\ join_type = "LeftSemi" /\ Drained(p)
        /\ Len(right_input[p]) = 2
        /\ \E b \in 1..Len(BuildRowsOf(p)) :
              Cardinality(MatchingProbe(p, BuildRowsOf(p)[b])) = 2
        /\ \E b \in 1..Len(BuildRowsOf(p)) : MatchingProbe(p, BuildRowsOf(p)[b]) = {}
        /\ Len(OutRows(p)) = 1

\* The probe ordinals (in the whole probe input) of every right index so far.
RightOrdinalsOf(p) ==
    Flatten([k \in 1..Len(idx_log[p]) |->
        [i \in 1..Len(idx_log[p][k].right) |->
            BatchOffset(p, k) + idx_log[p][k].right[i]]])

\* The probe rows `ords` (a sequence of ordinals), each once, as rows yielded.
IsProbeSelection(p, ords, keep) ==
    /\ SeqToSet(ords) = keep
    /\ Len(ords) = Cardinality(keep)
    /\ OutRows(p) = [i \in 1..Len(ords) |-> [l |-> <<>>, r |-> Cols(ProbeRowsOf(p)[ords[i]])]]

\* C4: without a residual filter, RightSemi yields each probe row exactly once
\* if some build row is key-equal to it and not at all otherwise; RightAnti
\* yields each probe row exactly once if no build row is key-equal to it (no
\* bucket, or a bucket of key-unequal rows only) and not at all otherwise.
C4_RightSemiAnti ==
    \A p \in Streams :
        (Drained(p) /\ filter = "none") =>
            LET R == ProbeRowsOf(p)
                hit == {g \in 1..Len(R) : KeyEqualBuild(p, R[g]) # {}}
            IN /\ join_type = "RightSemi" =>
                     IsProbeSelection(p, RightOrdinalsOf(p), hit)
               /\ join_type = "RightAnti" =>
                     IsProbeSelection(p, RightOrdinalsOf(p), (1..Len(R)) \ hit)

\* A drained RightAnti stream that yields two probe rows: one whose hash has no
\* bucket and one whose bucket holds only a key-unequal build row.
C4_Witness ==
    \E p \in Streams :
        /\ join_type = "RightAnti" /\ Drained(p) /\ filter = "none"
        /\ Len(OutRows(p)) = 2
        /\ \E g \in 1..Len(ProbeRowsOf(p)) :
              ~HasBucket(left_data[p], HashKey(ProbeRowsOf(p)[g].k))
        /\ \E g \in 1..Len(ProbeRowsOf(p)) :
              /\ HasBucket(left_data[p], HashKey(ProbeRowsOf(p)[g].k))
              /\ KeyEqualBuild(p, ProbeRowsOf(p)[g]) = {}

\* The entries of sq at the positions in `at`, in order.
Pick(sq, at) == FilterSeq(sq, [i \in 1..Len(sq) |-> i \in at])

\* What apply_join_filter was given for probe batch k of stream p, and the
\* mask it computed.
FilterInput(p, k) ==
    build_join_indexes(left_data[p], right_input[p][k], join_type, on, null_equals_null)
FilterMask(p, k) ==
    MaskSelection(filter,
        build_batch_from_indices(left_data[p].batch, right_input[p][k],
            FilterInput(p, k).left, FilterInput(p, k).right, BothSides, on).rows,
        FilterInput(p, k).left)
GroupOf(idx, r) == {i \in 1..Len(idx.right) : idx.right[i] = r}

\* C5: for Right and Full with a residual filter, apply_join_filter returns for
\* every probe ordinal r of its input all pairs (b, r) whose mask bit is true,
\* in input order, and exactly one pair (null, r) if and only if no pair of r's
\* group passed the mask; no probe ordinal is lost, none gets both.
C5_RightFullFilter ==
    \A p \in Streams :
        (join_type \in {"Right", "Full"} /\ filter # "none") =>
            \A k \in 1..Len(idx_log[p]) :
                LET input == FilterInput(p, k)
                    mask == FilterMask(p, k)
                    result == idx_log[p][k]
                IN /\ SeqToSet(result.right) = SeqToSet(input.right)
                   /\ Len(result.left) = Len(result.right)
                   /\ \A r \in SeqToSet(input.right) :
                         LET passing == Pick(input.left,
                                             {i \in GroupOf(input, r) : mask[i]})
                             got == Pick(result.left, GroupOf(result, r))
                         IN got = IF Len(passing) = 0 THEN <<NullIdx>> ELSE passing

\* A Right join batch in which one probe row keeps a passing pair and drops a
\* failing one while another probe row loses its only candidate and is padded.
C5_Witness ==
    \E p \in Streams :
        /\ join_type = "Right" /\ filter = "lt"
        /\ \E k \in 1..Len(idx_log[p]) :
              LET input == FilterInput(p, k)
                  mask == FilterMask(p, k)
              IN \E r1, r2 \in SeqToSet(input.right) :
                    /\ r1 # r2
                    /\ \E i, j \in GroupOf(input, r1) : mask[i] /\ ~mask[j]
                    /\ \A i \in GroupOf(input, r2) :
                          input.left[i] # NullIdx /\ ~mask[i]
                    /\ Len(idx_log[p][k].left) = 2

\* The probe rows stream p has consumed so far.
Consumed(p) == 1..BatchOffset(p, right_pos[p] + 1)

\* The last batch yielded by stream p.
LastBatch(p) == out[p][Len(out[p])]

\* C6: with a residual filter and Left, Full, LeftSemi or LeftAnti a build row
\* is marked visited only by a pair that is key-equal and passes the filter;
\* so a build row whose key-equal probe rows all fail the filter is in the
\* terminal batch null-padded for Left and Full, is in it for LeftAnti and is
\* not in it for LeftSemi.
C6_VisitedOnlyByPassingPair ==
    \A p \in Streams :
        (join_type \in LeftTracking /\ filter # "none") =>
            LET B == BuildRowsOf(p)
                bits == visited_left_side[p].bits
                matched == {b \in 1..Len(B) : MatchingProbe(p, B[b]) # {}}
                selected == IF join_type = "LeftSemi" THEN matched
                            ELSE (1..Len(B)) \ matched
                pad == IF join_type \in {"Left", "Full"}
                       THEN NullCols(NumCols(on)) ELSE <<>>
            IN /\ \A b \in 1..Len(bits) :
                     bits[b] => MatchingProbe(p, B[b]) \cap Consumed(p) # {}
               /\ last[p] = "terminal" =>
                     \A b \in 1..Len(B) :
                        (KeyEqualProbe(p, B[b]) # {} /\ MatchingProbe(p, B[b]) = {}) =>
                            Count(LastBatch(p), [l |-> Cols(B[b]), r |-> pad])
                                = Cardinality({c \in selected : B[c] = B[b]})

\* A LeftAnti terminal batch holding a build row whose only key-equal probe row
\* failed the filter, while another build row was marked by a passing pair.
C6_Witness ==
    \E p \in Streams :
        /\ join_type = "LeftAnti" /\ filter = "lt" /\ last[p] = "terminal"
        /\ \E b \in 1..Len(BuildRowsOf(p)) :
              /\ KeyEqualProbe(p, BuildRowsOf(p)[b]) # {}
              /\ MatchingProbe(p, BuildRowsOf(p)[b]) = {}
        /\ \E b \in 1..Len(BuildRowsOf(p)) : visited_left_side[p].bits[b]
        /\ Len(LastBatch(p)) = 1

AllNull(key) == \A j \in 1..Len(key) : ~key[j].valid

\* C7: a build row and a probe row are paired only if every key column is
\* equal on both sides or null on both sides with null_equals_null = TRUE; a
\* column null on exactly one side never pairs them.  So with null_equals_null
\* = FALSE no matched output row has a key column null on both sides, and with
\* null_equals_null = TRUE two rows whose key columns are all null match.
C7_NullPolicy ==
    \A p \in Streams :
        LET B == BuildRowsOf(p)
            R == ProbeRowsOf(p)
            pairs == SeqToSet(PairsOf(p))
            rows == OutRows(p)
        IN /\ \A pr \in pairs :
                 pr[1] # NullIdx =>
                    \A j \in 1..on :
                       LET x == B[pr[1]].k[j]
                           y == R[pr[2]].k[j]
                       IN /\ x.valid = y.valid
                          /\ x.valid => x.v = y.v
                          /\ ~x.valid => null_equals_null
           /\ (~null_equals_null /\ OutputSides(join_type) = BothSides) =>
                 \A i \in 1..Len(rows) :
                    (rows[i].l[NumCols(on)].valid /\ rows[i].r[NumCols(on)].valid) =>
                        \A j \in 1..on : rows[i].l[j].valid \/ rows[i].r[j].valid
           /\ (null_equals_null /\ filter = "none") =>
                 \A b \in 1..Len(B) : \A g \in Consumed(p) :
                    (AllNull(B[b].k) /\ AllNull(R[g].k)) =>
                        CASE join_type = "RightSemi" -> g \in SeqToSet(RightOrdinalsOf(p))
                          [] join_type = "RightAnti" -> g \notin SeqToSet(RightOrdinalsOf(p))
                          [] OTHER -> <<b, g>> \in pairs

\* With null_equals_null = TRUE and two key columns, an Inner join pairs rows that
\* are null in the first column only, while a build row null in the other
\* column shares the bucket of the probe row and is not paired with it.
C7_Witness ==
    \E p \in Streams :
        /\ null_equals_null /\ on = 2 /\ join_type = "Inner"
        /\ \E pr \in SeqToSet(PairsOf(p)) :
              /\ ~BuildRowsOf(p)[pr[1]].k[1].valid
              /\ BuildRowsOf(p)[pr[1]].k[2].valid
        /\ \E b \in 1..Len(BuildRowsOf(p)) : \E g \in Consumed(p) :
              /\ BuildRowsOf(p)[b].k[1].valid /\ ~BuildRowsOf(p)[b].k[2].valid
              /\ HashKey(BuildRowsOf(p)[b].k) = HashKey(ProbeRowsOf(p)[g].k)
              /\ <<b, g>> \notin SeqToSet(PairsOf(p))

SameBag(a, b) == \A x \in SeqToSet(a) \cup SeqToSet(b) : Count(a, x) = Count(b, x)

\* Every row yielded by any output partition.
AllOutRows == Flatten([p \in Streams |-> OutRows(p)])

\* The rows the operator yields over all output partitions when the same
\* logical inputs are run in mode m.
ModeOutput(m) ==
    LET lp == LeftPartitions(m, partitions, build_rows, 0)
        rp == RightPartitions(m, partitions, probe_rows, 0)
        data(p) == IF m = "CollectLeft" THEN collect_left_input(lp[1])
                   ELSE partitioned_left_input(lp[p])
    IN Flatten([p \in 1..partitions |->
           Flatten(RunStream(join_type, filter, null_equals_null, on, data(p), rp[p]).out)])

OtherMode(m) == IF m = "CollectLeft" THEN "Partitioned" ELSE "CollectLeft"

\* C8: over the same logical build and probe inputs, CollectLeft (one shared
\* build, P probe partitions) and Partitioned (both sides hash-partitioned on
\* the keys into P partitions) yield the same multiset of rows over all output
\* partitions, for every join type and every P >= 1.
C8_ModesAgree ==
    (\A p \in Streams : Drained(p)) => SameBag(AllOutRows, ModeOutput(OtherMode(mode)))

Mirror(jtype) ==
    CASE jtype = "Left" -> "Right"
      [] jtype = "Right" -> "Left"
      [] jtype = "LeftSemi" -> "RightSemi"
      [] jtype = "RightSemi" -> "LeftSemi"
      [] jtype = "LeftAnti" -> "RightAnti"
      [] jtype = "RightAnti" -> "LeftAnti"
      [] OTHER -> jtype

MirrorFilter(f) ==
    CASE f = "lt" -> "gt"
      [] f = "gt" -> "lt"
      [] OTHER -> f

SwapRows(rows) == [i \in 1..Len(rows) |-> [l |-> rows[i].r, r |-> rows[i].l]]

Finished(p) == Drained(p) \/ last[p] = "panic"

\* The join of stream p with build and probe inputs swapped and the mirrored
\* join type and filter.
MirrorRun(p) ==
    RunStream(Mirror(join_type), MirrorFilter(filter), null_equals_null, on,
              collect_left_input(right_input[p]), left_input[1])

\* C9: swapping the build and probe inputs and replacing the join type by its
\* mirror yields the same set of output rows up to the order of the two column
\* groups, with or without a residual filter.
C9_MirrorSymmetry ==
    \A p \in Streams :
        Finished(p) =>
            /\ last[p] # "panic"
            /\ MirrorRun(p).status = "ok"
            /\ SeqToSet(SwapRows(Flatten(MirrorRun(p).out))) = SeqToSet(OutRows(p))

\* C10: for every join type, a residual filter that is true for every candidate
\* pair gives the same output batches (same index pairs, same terminal batch)
\* as no filter.
C10_TrueFilterIsNoFilter ==
    \A p \in Streams :
        (filter = "all" /\ Finished(p)) =>
            LET plain == RunStream(join_type, "none", null_equals_null, on,
                                   left_data[p], right_input[p])
            IN /\ last[p] # "panic"
               /\ out[p] = plain.out
               /\ idx_log[p] = plain.idx

\* ------------------------------------------------------------ hash collisions
\* The build ordinals key-equal to probe row r, in ascending order, found
\* without any hashing.
RefMatches(p, r) ==
    SelectSeq([b \in 1..Len(BuildRowsOf(p)) |-> b],
              LAMBDA b : KeyEqual(BuildRowsOf(p)[b], r))

\* The index arrays of probe batch k decided by key equality alone.
RefIndexes(p, k) ==
    LET batch == right_input[p][k]
        m(row) == RefMatches(p, batch[row])
        l(row) == CASE join_type \in {"Inner", "Left", "LeftSemi", "LeftAnti"} -> m(row)
                    [] join_type \in {"Right", "Full"} ->
                          IF Len(m(row)) = 0 THEN <<NullIdx>> ELSE m(row)
                    [] OTHER -> <<>>
        n(row) == CASE join_type = "RightSemi" -> IF Len(m(row)) > 0 THEN 1 ELSE 0
                    [] join_type = "RightAnti" -> IF Len(m(row)) = 0 THEN 1 ELSE 0
                    [] OTHER -> Len(l(row))
    IN [left |-> Flatten([row \in 1..Len(batch) |-> l(row)]),
        right |-> Flatten([row \in 1..Len(batch) |-> Repeat(row, n(row))])]

\* The bucket probe row `row` of batch k walks.
BucketOf(p, k, row) ==
    Bucket(left_data[p], create_hashes(right_input[p][k])[row])

\* C11: whatever the hash function puts into one bucket (rows of another key
\* under a colliding hash, every build row under a constant hash, only rows of
\* the same key under an injective hash), the index pairs of every probe batch
\* are those decided by key equality alone; a probe row key-equal to one of the
\* two build rows of its bucket yields exactly one pair.
C11_PairsByKeyEquality ==
    \A p \in Streams : \A k \in 1..Len(idx_log[p]) :
        /\ idx_log[p][k] = RefIndexes(p, k)
        /\ \A row \in 1..Len(right_input[p][k]) :
              (/\ join_type = "Inner"
               /\ Len(BucketOf(p, k, row)) = 2
               /\ Len(RefMatches(p, right_input[p][k][row])) = 1)
                  => Count(idx_log[p][k].right, row) = 1

\* A colliding hash has put build rows of keys 1 and 2 into one bucket, and an
\* Inner join has paired a probe row of key 1 with one of them only.
C11_Witness ==
    \E p \in Streams : \E k \in 1..Len(idx_log[p]) :
        \E row \in 1..Len(right_input[p][k]) :
            /\ join_type = "Inner"
            /\ random_state = "colliding"
            /\ Len(BucketOf(p, k, row)) = 2
            /\ \E x \in 1..2 :
                  ~KeyEqual(BuildRowsOf(p)[BucketOf(p, k, row)[x]],
                            right_input[p][k][row])
            /\ Len(RefMatches(p, right_input[p][k][row])) = 1
            /\ Count(idx_log[p][k].right, row) = 1

\* ------------------------------------------------------------- end of stream
\* What a poll of stream p can change.
StreamState(p) ==
    <<last[p], out[p], idx_log[p], right_pos[p], right_err[p], visited_left_side[p],
      is_exhausted[p], join_metrics[p], err_count[p]>>
Polled(p) == StreamState(p)' # StreamState(p)

\* The terminal batches stream p has yielded.
TerminalCount(p) == Len(out[p]) - Len(idx_log[p])

\* The terminal batch of stream p as the bitmap stands.
TerminalBatch(p) ==
    produce_from_matched(GetOrInsertBitmap(p).bits, left_data[p],
                         OutputSides(join_type), join_type # "LeftSemi", on)

C12_Counts ==
    \A p \in Streams :
        /\ TerminalCount(p) \in {0, 1}
        /\ join_type \notin LeftTracking => TerminalCount(p) = 0
        /\ last[p] = "terminal" => TerminalCount(p) = 1
        /\ (join_type \in LeftTracking /\ last[p] = "eos") => TerminalCount(p) = 1

C12_Polls ==
    \A p \in Streams :
        Polled(p) =>
            /\ (left_fut[p] = "ready" /\ NextItem(p) = "none" /\ last[p] # "panic") =>
                  IF join_type \in LeftTracking /\ TerminalCount(p) = 0
                  THEN /\ last'[p] = "terminal"
                       /\ out'[p] = Append(out[p], TerminalBatch(p))
                  ELSE /\ last'[p] = "eos"
                       /\ out'[p] = out[p]
            /\ last[p] \in {"terminal", "eos"} => last'[p] = "eos"

\* C12: for Left, Full, LeftSemi and LeftAnti the poll that finds the probe
\* stream at its end yields the terminal batch, once, also when it has no rows,
\* and every later poll returns end-of-stream; for Inner, Right, RightSemi and
\* RightAnti no terminal batch is ever yielded and that poll returns
\* end-of-stream.
C12_TerminalOnce == [](C12_Counts) /\ [][C12_Polls]_vars

\* A left-tracking stream has yielded a terminal batch of zero rows and has
\* then returned end-of-stream, after at least one probe batch.
C12_Witness ==
    \E p \in Streams :
        /\ join_type \in LeftTracking
        /\ last[p] = "eos"
        /\ Len(idx_log[p]) > 0
        /\ TerminalCount(p) = 1
        /\ Len(LastBatch(p)) = 0

\* What the stream yields for probe batch k of stream p.
BatchOutput(p, k) ==
    build_batch(right_input[p][k], left_data[p], on, filter, join_type,
                null_equals_null).rows

C13_Order ==
    \A p \in Streams :
        last[p] # "panic" =>
            /\ Len(idx_log[p]) = right_pos[p]
            /\ Len(out[p]) - right_pos[p] \in {0, 1}
            /\ \A k \in 1..right_pos[p] : out[p][k] = BatchOutput(p, k)

C13_NothingAfterTerminal ==
    \A p \in Streams : TerminalCount(p) = 1 => out'[p] = out[p]

C14_Poll ==
    \A p \in Streams :
        (left_fut[p] = "ready" /\ NextItem(p) = "err" /\ Polled(p)) =>
            /\ last'[p] = "error"
            /\ out'[p] = out[p]

\* C14: for every join type, the poll in which the probe stream yields an error
\* item returns that error: it returns no batch in its place and does not drop
\* it.
C14_ProbeErrorReturned == [][C14_Poll]_vars

C15_Poll ==
    \A p \in Streams :
        (last[p] = "error" /\ Polled(p)) =>
            /\ last'[p] = "eos"
            /\ right_pos'[p] = right_pos[p]
            /\ out'[p] = out[p]
            /\ visited_left_side'[p] = visited_left_side[p]

\* C15: once a stream has returned an error item it is exhausted: every later
\* poll returns end-of-stream, pulls no probe batch, yields no batch and leaves
\* the visitation bitmap as it is.
C15_ExhaustedAfterError == [][C15_Poll]_vars

C16_Once ==
    \A p \in Streams :
        left_fut[p] = "failed" =>
            /\ err_count[p] <= 1
            /\ right_pos[p] = 0
            /\ out[p] = <<>>

C16_Poll ==
    \A p \in Streams :
        (left_fut[p] = "failed" /\ last[p] = "error" /\ Polled(p)) =>
            /\ last'[p] = "eos"
            /\ right_err'[p] = right_err[p]

\* C16: when the build side fails, a stream waiting for it returns the build
\* error once; every later poll of that stream returns end-of-stream, and the
\* probe stream is never polled.
C16_BuildErrorOnce == [](C16_Once) /\ [][C16_Poll]_vars

\* ----------------------------------------------------------------- shared build
C17_Shared ==
    mode = "CollectLeft" =>
        \A p \in Streams :
            /\ \A q \in Streams : left_fut[q] = left_fut[p] /\ left_data[q] = left_data[p]
            /\ left_fut[p] = "ready" => left_data[p] = collect_left_input(left_input[1])

C17_Step ==
    mode = "CollectLeft" =>
        /\ left_fut' # left_fut =>
              \A p \in Streams : left_fut[p] = "pending" /\ left_fut'[p] # "pending"
        /\ \A p \in Streams : left_fut[p] = "ready" => left_data'[p] = left_data[p]
        /\ \A p \in Streams :
              Polled(p) => /\ left_data' = left_data
                           /\ \A q \in Streams \ {p} : ~Polled(q)

\* C17: in CollectLeft mode, with any number of output partitions polled in any
\* order, the build runs once for the operator (one step completes the build
\* future of every stream), every stream holds the same build data, which no
\* later step changes, and a poll of a stream writes that stream's state only.
C17_BuildOnceShared == [](C17_Shared) /\ [][C17_Step]_vars

\* Two streams of a CollectLeft join have probed the one build side and hold
\* different visitation bitmaps.
C17_Witness ==
    /\ mode = "CollectLeft"
    /\ partitions = 2
    /\ \A p \in Streams : Drained(p) /\ right_pos[p] > 0
    /\ left_data[1] = left_data[2]
    /\ Len(left_data[1].batch) > 0
    /\ visited_left_side[1] # visited_left_side[2]

\* ------------------------------------------------------------ equal_rows errors
Supported(t) == t.name \in {"Int32", "Decimal128"}

\* Column pair j of the call has an unsupported type, or is a pair of
\* Decimal128 columns of different scale.
BadPair(j) ==
    LET l == equal_call.left_arrays[j].data_type
        r == equal_call.right_arrays[j].data_type
    IN \/ ~Supported(l)
       \/ ~Supported(r)
       \/ l.name = "Decimal128" /\ r.name = "Decimal128" /\ l.scale # r.scale

\* C18: a call of equal_rows in which some pair of key columns has an
\* unsupported type or is Decimal128 of two scales returns an internal error,
\* and does not panic, whatever the other columns hold at the compared rows.
C18_EqualRowsError ==
    (/\ equal_call.result # NoResult
     /\ \E j \in 1..Len(equal_call.left_arrays) : BadPair(j))
        => equal_call.result.status = "err"

\* ----------------------------------------------------------------------- metrics
C19_Stream(p) ==
    /\ join_metrics[p].input_batches = right_pos[p]
    /\ join_metrics[p].input_rows = Len(Flatten(SubSeq(right_input[p], 1, right_pos[p])))

\* C19: at every point of a stream's run, for every join type, input_batches
\* is the number of probe batches the stream has consumed and input_rows the
\* number of rows in those batches.
C19_InputMetrics == \A p \in Streams : last[p] # "panic" => C19_Stream(p)

\* ---------------------------------------------------------------- visited bits
\* Build row i is a left index of the (filtered) index pairs of some probe
\* batch of stream p.
InSomePair(p, i) ==
    \E k \in 1..Len(idx_log[p]) : i \in SeqToSet(idx_log[p][k].left)

\* The build ordinals in no pair, in ascending order.
NeverPaired(p) ==
    SelectSeq([i \in 1..Len(left_data[p].batch) |-> i], LAMBDA i : ~InSomePair(p, i))

C20_Bits ==
    \A p \in Streams :
        (join_type \in LeftTracking /\ visited_left_side[p].some) =>
            /\ Len(visited_left_side[p].bits) = Len(left_data[p].batch)
            /\ \A i \in 1..Len(left_data[p].batch) :
                  visited_left_side[p].bits[i] <=> InSomePair(p, i)
            /\ (join_type \in {"Left", "Full"}) =>
                  /\ \A k \in 1..Len(idx_log[p]) : \A x \in 1..Len(idx_log[p][k].left) :
                        idx_log[p][k].left[x] # NullIdx =>
                            out[p][k][x].l = Cols(left_data[p].batch[idx_log[p][k].left[x]])
                  /\ TerminalCount(p) = 1 =>
                        LastBatch(p) =
                            [x \in 1..Len(NeverPaired(p)) |->
                                [l |-> Cols(left_data[p].batch[NeverPaired(p)[x]]),
                                 r |-> NullCols(NumCols(on))]]

C20_Monotone ==
    \A p \in Streams :
        visited_left_side[p].some =>
            /\ visited_left_side'[p].some
            /\ Len(visited_left_side'[p].bits) = Len(visited_left_side[p].bits)
            /\ \A i \in 1..Len(visited_left_side[p].bits) :
                  visited_left_side[p].bits[i] => visited_left_side'[p].bits[i]

\* C20: for Left, Full, LeftSemi and LeftAnti bit i of the visitation bitmap is
\* set exactly when build row i is a non-null build index of the filtered
\* index pairs of some probe batch, a set bit is never cleared, and for Left
\* and Full the rows of the terminal batch are exactly the build rows that are
\* in no matched output row.
C20_VisitedIffPaired == [](C20_Bits) /\ [][C20_Monotone]_vars

\* A Left or Full join with a residual filter has ended with one build row
\* paired and another, key-equal to a probe row that fails the filter, in the
\* terminal batch.
C20_Witness ==
    \E p \in Streams :
        /\ join_type \in {"Left", "Full"}
        /\ filter = "lt"
        /\ last[p] = "eos"
        /\ \E i, j \in 1..Len(left_data[p].batch) :
              /\ visited_left_side[p].bits[i]
              /\ ~visited_left_side[p].bits[j]
              /\ KeyEqualProbe(p, left_data[p].batch[j]) # {}

\* ------------------------------------------------------------------ build map
\* The build batches stream p's build side was made from.
BuildBatchesOf(p) == left_input[IF mode = "CollectLeft" THEN 1 ELSE p]

\* Every (hash, position) of the JoinHashMap.
Positions(hash_map) ==
    UNION { { <<h, x>> : x \in 1..Len(hash_map[h]) } : h \in DOMAIN hash_map }

C21_Stream(p) ==
    LET d == left_data[p]
        batches == BuildBatchesOf(p)
        earlier(k) == Len(Flatten(SubSeq(batches, 1, k - 1)))
    IN /\ Len(d.batch) = Len(Flatten(batches))
       /\ Cardinality(Positions(d.map)) = Len(d.batch)
       /\ \A i \in 1..Len(d.batch) :
             Cardinality({ hx \in Positions(d.map) : d.map[hx[1]][hx[2]] = i }) = 1
       /\ \A hx \in Positions(d.map) :
             /\ d.map[hx[1]][hx[2]] \in 1..Len(d.batch)
             /\ HashKey(d.batch[d.map[hx[1]][hx[2]]].k) = hx[1]
       /\ \A k \in 1..Len(batches) : \A r \in 1..Len(batches[k]) :
             /\ d.batch[r + earlier(k)] = batches[k][r]
             /\ \E x \in 1..Len(Bucket(d, create_hashes(batches[k])[r])) :
                   Bucket(d, create_hashes(batches[k])[r])[x] = r + earlier(k)

\* C21: after the build over any sequence of build batches every row ordinal
\* of the concatenated batch is in exactly one bucket, once (bucket lengths sum
\* to the row count), row r of the k-th batch has ordinal r plus the row count
\* of the earlier batches, and the hash a bucket is stored under is the key
\* hash of every row in it.
C21_BuildMap == \A p \in Streams : left_fut[p] = "ready" => C21_Stream(p)

\* A build of two batches has put rows of keys 1 and 2 into one bucket, the
\* row of the second batch under ordinal 2.
C21_Witness ==
    \E p \in Streams :
        /\ left_fut[p] = "ready"
        /\ Len(BuildBatchesOf(p)) = 2
        /\ \E h \in DOMAIN left_data[p].map :
              /\ left_data[p].map[h] = <<1, 2>>
              /\ left_data[p].batch[1].k # left_data[p].batch[2].k

\* ---------------------------------------------------------------- claim C22
StraightTypes == {"Inner", "Left", "LeftSemi", "LeftAnti", "RightSemi", "RightAnti"}

\* The result of the apply_join_filter call made for probe batch k of stream p.
FilterResult(p, k) ==
    apply_join_filter(left_data[p].batch, right_input[p][k], join_type,
                      FilterInput(p, k).left, FilterInput(p, k).right, filter, on)

\* The predicate evaluated on the pair at position i of the input index arrays.
PairPasses(p, k, i) ==
    LET input == FilterInput(p, k)
    IN Predicate(filter,
                 TakeCols(left_data[p].batch, input.left, i, on),
                 TakeCols(right_input[p][k], input.right, i, on))

\* C22: with a residual filter and join type Inner, Left, LeftSemi, LeftAnti,
\* RightSemi or RightAnti, every apply_join_filter call succeeds and returns,
\* for both index arrays, exactly the entries at the positions where the
\* predicate holds, in their original order.
C22_StraightFilter ==
    \A p \in Streams :
        (left_fut[p] = "ready" /\ filter # "none" /\ join_type \in StraightTypes) =>
            \A k \in 1..right_pos[p] :
                LET input == FilterInput(p, k)
                    result == FilterResult(p, k)
                IN /\ result.status = "ok"
                   /\ Len(input.left) = Len(input.right)
                   /\ LET passing == {i \in 1..Len(input.right) : PairPasses(p, k, i)}
                      IN /\ result.left = Pick(input.left, passing)
                         /\ result.right = Pick(input.right, passing)

\* ---------------------------------------------------------------- claim C23
\* The positions of index list idx that carry probe ordinal r.
PairsAt(idx, r) == {i \in 1..Len(idx.right) : idx.right[i] = r}

\* The build ordinals key-equal to row r of probe batch k of stream p.
KeyEqualTo(p, k, r) == KeyEqualBuild(p, right_input[p][k][r])

C23_Batch(p, k) ==
    LET idx == FilterInput(p, k)
        batch == right_input[p][k]
    IN /\ idx.status = "ok"
       /\ Len(idx.left) = Len(idx.right)
       /\ SeqToSet(idx.right) = 1..Len(batch)
       /\ \A i \in 1..Len(idx.right) - 1 : idx.right[i] <= idx.right[i + 1]
       /\ \A r \in 1..Len(batch) :
             LET at == PairsAt(idx, r)
                 nulls == {i \in at : idx.left[i] = NullIdx}
             IN /\ at # {}
                /\ {idx.left[i] : i \in at \ nulls} = KeyEqualTo(p, k, r)
                /\ Cardinality(at \ nulls) = Cardinality(KeyEqualTo(p, k, r))
                /\ Cardinality(nulls) = IF KeyEqualTo(p, k, r) = {} THEN 1 ELSE 0

\* C23: for Right and Full, build_join_indexes emits for each probe row r of the
\* batch, in ascending r, every pair (b, r) with b key-equal to r once, and
\* exactly one pair (null, r) if and only if no build row is key-equal to r,
\* whether r's hash has no bucket or its bucket holds only key-unequal rows;
\* every probe row of the batch has at least one pair.
C23_RightFullIndexes ==
    \A p \in Streams :
        (left_fut[p] = "ready" /\ join_type \in {"Right", "Full"}) =>
            \A k \in 1..right_pos[p] : C23_Batch(p, k)

\* A Right or Full batch of two probe rows: one has two key-equal build rows,
\* the other finds a bucket whose rows are all key-unequal and is padded.
C23_Witness ==
    \E p \in Streams :
        /\ left_fut[p] = "ready" /\ join_type \in {"Right", "Full"}
        /\ \E k \in 1..right_pos[p] :
              LET idx == FilterInput(p, k)
              IN \E r1, r2 \in 1..Len(right_input[p][k]) :
                    /\ Cardinality(KeyEqualTo(p, k, r1)) = 2
                    /\ KeyEqualTo(p, k, r2) = {}
                    /\ Len(BucketOf(p, k, r2)) > 0
                    /\ Len(idx.left) = 3

\* ---------------------------------------------------------------- claim C24
\* Probe ordinals never decrease, and where two neighbouring pairs carry the
\* same probe ordinal their build ordinals ascend (bucket insertion order).
\* The RightSemi and RightAnti arms return no build indices at all.
Ordered(idx) ==
    /\ \A i \in 1..Len(idx.right) - 1 : idx.right[i] <= idx.right[i + 1]
    /\ Len(idx.left) = Len(idx.right) =>
          \A i \in 1..Len(idx.right) - 1 :
              idx.right[i] = idx.right[i + 1] => idx.left[i] < idx.left[i + 1]

\* C24: in every index pair list produced by build_join_indexes and in every
\* list returned by apply_join_filter, probe ordinals are non-decreasing and
\* the pairs of one probe ordinal list their build ordinals in ascending
\* order, so the pairs of one probe ordinal are consecutive.
C24_IndexOrder ==
    \A p \in Streams :
        left_fut[p] = "ready" =>
            \A k \in 1..right_pos[p] :
                /\ FilterInput(p, k).status = "ok" => Ordered(FilterInput(p, k))
                /\ (filter # "none" /\ FilterResult(p, k).status = "ok") =>
                      Ordered(FilterResult(p, k))

\* A Full join batch whose filter result interleaves a pad with two passing
\* pairs of one probe row: the first probe row has all its candidates rejected,
\* the second keeps both of its build rows.
C24_Witness ==
    \E p \in Streams :
        /\ left_fut[p] = "ready" /\ join_type = "Full" /\ filter # "none"
        /\ \E k \in 1..right_pos[p] :
              /\ Len(FilterInput(p, k).left) > Len(FilterResult(p, k).left)
              /\ FilterResult(p, k).left = <<NullIdx, 1, 2>>
              /\ FilterResult(p, k).right = <<1, 2, 2>>

\* ---------------------------------------------------------------- claim C25
\* While the build future of a stream is pending nothing has been pulled from
\* its probe stream, its bitmap does not exist and its metrics are zero.
C25_Untouched ==
    \A p \in Streams :
        left_fut[p] = "pending" =>
            /\ right_pos[p] = 0
            /\ visited_left_side[p] = NoBitmap
            /\ join_metrics[p] = ZeroMetrics
            /\ out[p] = <<>> /\ idx_log[p] = <<>>
            /\ ~is_exhausted[p]

\* A poll made while the build future is pending returns Pending and leaves
\* the probe stream, the bitmap and the metrics as they were.
C25_Poll ==
    \A p \in Streams :
        (left_fut[p] = "pending" /\ Polled(p)) =>
            /\ last'[p] = "pending"
            /\ right_pos'[p] = right_pos[p]
            /\ visited_left_side'[p] = visited_left_side[p]
            /\ join_metrics'[p] = join_metrics[p]
            /\ out'[p] = out[p]

\* C25: the probe stream is never polled while the build future is pending: a
\* poll of the join stream returns Pending without touching the probe stream,
\* the bitmap or the metrics, and the first probe batch is pulled only after
\* the build side is ready.
C25_ProbeAfterBuild == [](C25_Untouched) /\ [][C25_Poll]_vars

\* A stream with probe batches waiting was polled while its build future was
\* pending and got Pending.
C25_Witness ==
    \E p \in Streams :
        /\ left_fut[p] = "pending" /\ last[p] = "pending"
        /\ Len(right_input[p]) >= 1 /\ right_pos[p] = 0

\* ---------------------------------------------------------------- claim C26
\* Processing probe batch k of stream p fails inside the operator:
\* build_join_indexes or apply_join_filter returns an error.
FailsInside(p, k) ==
    \/ FilterInput(p, k).status # "ok"
    \/ filter # "none" /\ FilterResult(p, k).status # "ok"

C26_Poll ==
    \A p \in Streams :
        (/\ left_fut[p] = "ready"
         /\ right_pos'[p] = right_pos[p] + 1
         /\ FailsInside(p, right_pos[p] + 1)) =>
            /\ last'[p] = "error"
            /\ err_count'[p] = err_count[p] + 1

\* C26: when processing a probe batch fails inside the operator, the poll that
\* pulled the batch yields the error as the stream's next item; it does not
\* abort.
C26_FailureIsItem == [][C26_Poll]_vars

\* ---------------------------------------------------------------- claim C27
\* Build row b of the whole build input is key-equal to some probe row of some
\* partition.
MatchedAnywhere(b) ==
    \E g \in 1..Len(probe_rows) : KeyEqual(build_rows[b], probe_rows[g])

\* How often the operator emitted, over all output partitions, build columns v
\* from the unmatched emitter's side: null-padded for Left and Full, as a bare
\* build row for LeftSemi and LeftAnti.
EmittedBuildOnly(v) ==
    Cardinality({i \in 1..Len(AllOutRows) :
        /\ AllOutRows[i].l = v
        /\ join_type \in {"Left", "Full"} => AllOutRows[i].r = NullCols(NumCols(on))})

\* How many build rows with columns v the join type has to emit that way.
ExpectedBuildOnly(v) ==
    Cardinality({b \in 1..Len(build_rows) :
        /\ Cols(build_rows[b]) = v
        /\ IF join_type = "LeftSemi" THEN MatchedAnywhere(b) ELSE ~MatchedAnywhere(b)})

\* C27: in CollectLeft mode with P >= 2 probe partitions, over the union of the
\* output partitions, Left and Full emit a build row null-padded exactly once
\* if it is key-equal to no probe row of any partition and never otherwise;
\* LeftAnti likewise emits exactly the build rows matched in no partition, and
\* LeftSemi each matched build row exactly once.
C27_UnmatchedOverAllPartitions ==
    (/\ mode = "CollectLeft" /\ partitions >= 2
     /\ join_type \in LeftTracking
     /\ \A p \in Streams : Drained(p)) =>
        \A b \in 1..Len(build_rows) :
            EmittedBuildOnly(Cols(build_rows[b])) = ExpectedBuildOnly(Cols(build_rows[b]))

\* ---------------------------------------------------------------- claim C28
\* C28: with a residual filter, RightSemi yields a probe row exactly once if
\* some build row is key-equal to it and the pair passes the filter (whichever
\* position that build row has in the bucket) and not otherwise; RightAnti
\* yields a probe row exactly once if no key-equal build row passes the filter
\* and not otherwise.
C28_RightSemiAntiFilter ==
    \A p \in Streams :
        (/\ filter # "none" /\ join_type \in {"RightSemi", "RightAnti"}
         /\ Finished(p)) =>
            LET R == ProbeRowsOf(p)
                hit == {g \in 1..Len(R) : MatchingBuild(p, R[g]) # {}}
            IN /\ Drained(p)
               /\ join_type = "RightSemi" =>
                     IsProbeSelection(p, RightOrdinalsOf(p), hit)
               /\ join_type = "RightAnti" =>
                     IsProbeSelection(p, RightOrdinalsOf(p), (1..Len(R)) \ hit)

\* ---------------------------------------------------------------- claim C29
\* One build_batch_from_indices call: neither assertion fails (an empty source
\* column is never met by a non-null index), every non-null build index names
\* a row of the build batch and every probe index a row of the probe batch.
CallIsSafe(left, right, left_indices, right_indices, sides) ==
    /\ "Left" \in sides => ~AssertFails(left, left_indices)
    /\ "Right" \in sides => ~AssertFails(right, right_indices)
    /\ \A i \in 1..Len(left_indices) :
          left_indices[i] # NullIdx => left_indices[i] \in 1..Len(left)
    /\ \A i \in 1..Len(right_indices) : right_indices[i] \in 1..Len(right)

\* The calls made for probe batch k of stream p: the intermediate batch of
\* apply_join_filter and the output batch of build_batch.
C29_Batch(p, k) ==
    LET input == FilterInput(p, k)
        final == IF filter = "none" THEN input ELSE FilterResult(p, k)
        left == left_data[p].batch
        right == right_input[p][k]
    IN /\ (filter # "none" /\ input.status = "ok"
              /\ ~(Len(input.left) = 0 /\ Len(input.right) = 0)) =>
             CallIsSafe(left, right, input.left, input.right, BothSides)
       /\ (input.status = "ok" /\ final.status = "ok"
              /\ join_type \notin {"LeftSemi", "LeftAnti"}) =>
             CallIsSafe(left, right, final.left, final.right, OutputSides(join_type))

\* C29: the two assertions of build_batch_from_indices fail on no call the
\* stream makes, from build_batch or from apply_join_filter, for any join type
\* and any build and probe batch, empty or not; the indices stay within the
\* build batch and the probe batch.
C29_AssertionsHold ==
    \A p \in Streams :
        left_fut[p] = "ready" =>
            \A k \in 1..Len(right_input[p]) : C29_Batch(p, k)

\* A Full join over an empty build side with a filter has processed a probe
\* batch with a row: both calls met the empty build column with an all-null
\* index array and took the null-array branch.
C29_Witness ==
    \E p \in Streams :
        /\ left_fut[p] = "ready" /\ join_type = "Full" /\ filter # "none"
        /\ Len(left_data[p].batch) = 0
        /\ right_pos[p] >= 1 /\ Len(right_input[p][1]) >= 1
        /\ Len(out[p]) >= 1 /\ Len(out[p][1]) = Len(right_input[p][1])

\* ---------------------------------------------------------------- claim C30
\* The length the bitmap of stream p is created with.
BitmapLength(p) ==
    IF join_type \in LeftTracking THEN Len(BuildRowsOf(p)) ELSE 0

C30_Length ==
    \A p \in Streams :
        IF visited_left_side[p].some
        THEN /\ Len(visited_left_side[p].bits) = BitmapLength(p)
             /\ join_type \in LeftTracking =>
                   \A k \in 1..Len(idx_log[p]) : \A x \in 1..Len(idx_log[p][k].left) :
                       idx_log[p][k].left[x] # NullIdx =>
                           idx_log[p][k].left[x] \in 1..Len(visited_left_side[p].bits)
        ELSE visited_left_side[p].bits = <<>> /\ right_pos[p] = 0

C30_Step ==
    \A p \in Streams :
        visited_left_side[p].some =>
            /\ visited_left_side'[p].some
            /\ Len(visited_left_side'[p].bits) = Len(visited_left_side[p].bits)

\* C30: once created, the visitation bitmap of a stream keeps its length: the
\* build row count for Left, Full, LeftSemi and LeftAnti, zero for Inner,
\* Right, RightSemi and RightAnti; no poll changes the length, and every build
\* index whose bit is set during probing lies within it.
C30_BitmapLengthFixed == [](C30_Length) /\ [][C30_Step]_vars

\* A drained LeftSemi stream over two build rows whose bitmap still has two
\* bits, the second set by a probe batch and the first never set.
C30_Witness ==
    \E p \in Streams :
        /\ join_type = "LeftSemi" /\ Drained(p)
        /\ visited_left_side[p].some
        /\ visited_left_side[p].bits = <<FALSE, TRUE>>
        /\ right_pos[p] = 2

====
